---- MODULE Spec2Model ----
(***************************************************************************)
(* The NetworksDB data source (datasrcs/networksdb.go): the adapter that   *)
(* resolves an address or an AS number into an ownership record, in API    *)
(* mode (credential configured) or in scrape mode.  One adapter instance   *)
(* handles one ASN request at a time; every outbound fetch is a step whose *)
(* response is chosen from a bounded set of responses.                     *)
(*                                                                         *)
(* Strings that the code parses are sequences of symbols, so that parsing  *)
(* is computed: an address "a" is <<a>>, a CIDR "base/len" is              *)
(* <<base, len>>, a decimal number is its sequence of digits, and Space    *)
(* is the blank that strings.TrimSpace removes.                            *)
(***************************************************************************)
EXTENDS Integers, Sequences, FiniteSets, TLC

\* ---------------------------------------------------------------- bounds
AddrBits == 2          \* width of an address in bits
MaxASN == 2            \* AS numbers range over 1..MaxASN (0 means "not set")
MaxBlocks == 2         \* CIDR entries in one response
MaxCandidates == 2     \* AS numbers in one organisation-info response
MaxLatency == 1        \* seconds a fetch may take
NumSources == 2        \* data sources healASInfo asks
MaxWork == 2           \* addresses healASInfo goes through
MaxLinks == 2          \* links to address pages on the page of a domain
MaxPage == 3           \* text pieces of a domains-in-network page

\* ------------------------------------------------------ program constants
RateLimit == 3         \* n.SetRateLimit(3 * time.Second)
API == "api"           \* requests.API
SCRAPE == "scrape"     \* requests.SCRAPE
SourceName == "NetworksDB"

\* ---------------------------------------------------------------- helpers
Min(a, b) == IF a < b THEN a ELSE b

RECURSIVE Pow2(_)
Pow2(n) == IF n = 0 THEN 1 ELSE 2 * Pow2(n - 1)

MaxAddr == Pow2(AddrBits) - 1
EmptyString == << >>
Space == -1
SpaceCh == " "
NilIP == -1

\* strings.TrimSpace: removes the leading and the trailing blanks.
RECURSIVE TrimLeft(_, _)
TrimLeft(s, sp) ==
  IF s # << >> /\ Head(s) = sp THEN TrimLeft(Tail(s), sp) ELSE s

RECURSIVE TrimRight(_, _)
TrimRight(s, sp) ==
  IF s # << >> /\ s[Len(s)] = sp THEN TrimRight(SubSeq(s, 1, Len(s) - 1), sp) ELSE s

TrimSpace(s, sp) == TrimRight(TrimLeft(s, sp), sp)

\* strconv.Atoi on a sequence of symbols: an error for the empty string and
\* for any symbol that is not a digit.
RECURSIVE DigitsValue(_)
DigitsValue(s) ==
  IF s = << >> THEN 0 ELSE 10 * DigitsValue(SubSeq(s, 1, Len(s) - 1)) + s[Len(s)]

Atoi(s) ==
  IF s # << >> /\ \A i \in 1..Len(s) : s[i] \in 0..9
    THEN [ok |-> TRUE, val |-> DigitsValue(s)]
    ELSE [ok |-> FALSE, val |-> 0]

\* net.ParseIP: the address, or nil for a string that is not an address.
ParseIP(s) ==
  IF Len(s) = 1 /\ s[1] \in 0..MaxAddr THEN s[1] ELSE NilIP

\* The network part of an address under a prefix length.
Mask(a, bits) == (a \div Pow2(AddrBits - bits)) * Pow2(AddrBits - bits)

\* net.ParseCIDR: the network of "base/len" (host bits of base are dropped),
\* or an error for a malformed string.
ParseCIDR(c) ==
  IF Len(c) = 2 /\ c[1] \in 0..MaxAddr /\ c[2] \in 0..AddrBits
    THEN [ok |-> TRUE, base |-> Mask(c[1], c[2]), bits |-> c[2]]
    ELSE [ok |-> FALSE, base |-> 0, bits |-> 0]

\* (*net.IPNet).Contains: false for a nil address.
Contains(ipnet, ip) == ip # NilIP /\ Mask(ip, ipnet.bits) = ipnet.base

\* stringset.Set.Insert / Union: a set keyed by the exact string.
Insert(set, s) == set \cup {s}
Union(set, other) == set \cup other

\* ------------------------------------------------- the external responses
\* CIDR strings a source may report: "0/1" and "1/1" are textually different
\* and denote the same block, "2/1" is another block, and the last one has a
\* prefix length beyond the address width (malformed).
CIDRStrings == {<<0, 1>>, <<1, 1>>, <<2, 1>>, <<0, AddrBits + 1>>}
\* What the CIDR pattern captures on a page: a CIDR string, possibly padded.
RawCIDRs == CIDRStrings \cup {<<Space, 2, 1>>}
ASNs == 1..MaxASN
CandidateLists == UNION {[1..n -> ASNs] : n \in 0..MaxCandidates}
Latencies == 0..MaxLatency

NoMatch == [found |-> FALSE, text |-> << >>]
Match(t) == [found |-> TRUE, text |-> t]

\* The members of a set in some fixed order.
RECURSIVE SeqOf(_)
SeqOf(set) ==
  IF set = {} THEN << >>
  ELSE LET x == CHOOSE y \in set : TRUE IN <<x>> \o SeqOf(set \ {x})

\* The lists of at most n members of a set, one per subset, and the list
\* that names its first member twice.
ListsOf(set, n) ==
  {SeqOf(sub) : sub \in {x \in SUBSET set : Cardinality(x) <= n}}
    \cup {SeqOf(sub) \o SeqOf(sub) : sub \in {x \in SUBSET set : Cardinality(x) = 1 /\ n >= 2}}

\* A JSON reply of the API: bad stands for a transport or a decoding error;
\* a reply that reports a service error carries no results; the total of a
\* reply need not agree with its results.
APIResponses(payloads) ==
  {[bad |-> TRUE, Error |-> "", Total |-> 0, Results |-> << >>],
   [bad |-> FALSE, Error |-> "limit exceeded", Total |-> 0, Results |-> << >>]}
    \cup {[bad |-> FALSE, Error |-> "", Total |-> t, Results |-> r] :
             t \in 0..1, r \in payloads}

IPInfoResponses ==
  APIResponses({<< >>,
                <<[ID |-> "org-1", CIDR |-> <<0, 1>>]>>,
                <<[ID |-> "", CIDR |-> << >>]>>})
OrgInfoResponses ==
  APIResponses({<< >>} \cup {<<[ASNs |-> l]>> : l \in CandidateLists})
NetblocksResponses ==
  APIResponses(ListsOf([CIDR : CIDRStrings], MaxBlocks))
ASNInfoResponses ==
  APIResponses({<< >>} \cup
    {<<[ASN |-> a, Description |-> <<"Example Net">>, CountryCode |-> <<"US">>]>> :
       a \in ASNs})

\* The pages of the site, by what the patterns of lines 33-40 find on them.
IPPages ==
  {[err |-> e, ASNLink |-> l] :
     e \in BOOLEAN, l \in {NoMatch, Match(<<"/autonomous-system/AS1">>)}}
CaptureSeqs == ListsOf(RawCIDRs, MaxBlocks)
ASPages ==
  {[err |-> TRUE, CIDRs |-> << >>, ASNumber |-> NoMatch]}
    \cup {[err |-> FALSE, CIDRs |-> cs, ASNumber |-> m] :
             cs \in CaptureSeqs,
             m \in {NoMatch, Match(<< >>), Match(<<1>>), Match(<<0, 2>>)}}
ASNPages ==
  {[err |-> TRUE, CIDRs |-> << >>, ASName |-> NoMatch, CC |-> NoMatch]}
    \cup {[err |-> FALSE, CIDRs |-> cs, ASName |-> nm, CC |-> cc] :
             cs \in CaptureSeqs,
             nm \in {NoMatch, Match(<<SpaceCh, "Example Net">>)},
             cc \in {NoMatch, Match(<<"US">>)}}

\* The credential the configuration holds for the source: none, one with an
\* empty key, or one with a key.
NilKey == [isNil |-> TRUE, Key |-> ""]
APIKeys == {NilKey, [isNil |-> FALSE, Key |-> ""], [isNil |-> FALSE, Key |-> "k"]}

\* The ASN requests: an address (possibly one that does not parse), an AS
\* number, both or neither.
ReqAddrs == {EmptyString, <<1>>, <<2>>, <<MaxAddr + 1>>}
Requests == [Address : ReqAddrs, ASN : 0..MaxASN]

\* ------------------------------------------------ the code's pure parts
\* BaseService.CheckRateLimit on the limiter's clock: sleeps until rl seconds
\* have passed since the previous check, then records the check.  The clock
\* is kept as the seconds since the last check and since the last fetch,
\* both capped at RateLimit (nothing compares them with more).
CheckRateLimit(t, rl) ==
  LET sleep == IF rl > t.sinceWait THEN rl - t.sinceWait ELSE 0
  IN  [sinceWait |-> 0,
       sinceFetch |-> Min(RateLimit, t.sinceFetch + sleep),
       waited |-> TRUE]

\* http.RequestWebPage on the limiter's clock: the fetch is issued now and
\* its response arrives lat seconds later.
RequestWebPage(t, lat) ==
  [sinceWait |-> Min(RateLimit, t.sinceWait + lat),
   sinceFetch |-> Min(RateLimit, lat),
   waited |-> FALSE]

\* A test of the credential that forgets the empty key.
NoAPIKeyNilOnly(api) == api.isNil

\* OnStart's test of the credential.
NoAPIKey(api) == api.isNil \/ api.Key = ""

\* A handler without the test of the empty request.
InvalidRequestNever(r) == FALSE

\* OnASNRequest's first test: a request with neither an address nor an ASN.
InvalidRequest(r) == r.Address = EmptyString /\ r.ASN = 0

\* The second fetch of executeASNAddrQuery issued without a wait.
RateLimitASPageSkipped(t, rl) == t

\* The rate-limiter wait of executeASNAddrQuery between its two fetches.
RateLimitASPage(t, rl) == CheckRateLimit(t, rl)

\* A reading of the IP-info reply that does not look at its total.
apiIPQueryNoTotal(resp) ==
  IF resp.bad \/ resp.Error # "" \/ Len(resp.Results) = 0
    THEN [cidr |-> EmptyString, id |-> ""]
    ELSE [cidr |-> resp.Results[1].CIDR, id |-> resp.Results[1].ID]

\* apiIPQuery's reading of the reply: the CIDR and the organisation id of the
\* first result, or two empty strings.
apiIPQuery(resp) ==
  IF resp.bad \/ resp.Error # "" \/ resp.Total = 0 \/ Len(resp.Results) = 0
    THEN [cidr |-> EmptyString, id |-> ""]
    ELSE [cidr |-> resp.Results[1].CIDR, id |-> resp.Results[1].ID]

\* apiOrgInfoQuery's reading of the reply: the AS numbers of the first
\* result.  m.Results[0] is indexed before the length of m.Results is looked
\* at, so a reply with a total and no results is an index out of range.
apiOrgInfoQuery(resp) ==
  IF resp.bad \/ resp.Error # "" \/ resp.Total = 0
    THEN [panic |-> FALSE, asns |-> << >>]
    ELSE IF Len(resp.Results) = 0
      THEN [panic |-> TRUE, asns |-> << >>]
      ELSE [panic |-> FALSE, asns |-> resp.Results[1].ASNs]

\* apiNetblocksQuery's reading of the reply: the set of the reported CIDRs.
apiNetblocksQuery(resp) ==
  IF resp.bad \/ resp.Error # "" \/ resp.Total = 0 \/ Len(resp.Results) = 0
    THEN {}
    ELSE {resp.Results[i].CIDR : i \in 1..Len(resp.Results)}

\* A reading of the AS-info reply that does not look at its total.
apiASNInfoQueryNoTotal(resp, tag) ==
  IF resp.bad \/ resp.Error # "" \/ Len(resp.Results) = 0
    THEN [isNil |-> TRUE]
    ELSE [isNil |-> FALSE,
          Address |-> EmptyString,
          ASN |-> resp.Results[1].ASN,
          Prefix |-> EmptyString,
          CC |-> resp.Results[1].CountryCode,
          Description |-> resp.Results[1].Description \o <<", ">>
                            \o resp.Results[1].CountryCode,
          Netblocks |-> {},
          Tag |-> tag,
          Source |-> SourceName]

\* apiASNInfoQuery's reading of the reply: nil, or a request filled from the
\* first result.
apiASNInfoQuery(resp, tag) ==
  IF resp.bad \/ resp.Error # "" \/ resp.Total = 0 \/ Len(resp.Results) = 0
    THEN [isNil |-> TRUE]
    ELSE [isNil |-> FALSE,
          Address |-> EmptyString,
          ASN |-> resp.Results[1].ASN,
          Prefix |-> EmptyString,
          CC |-> resp.Results[1].CountryCode,
          Description |-> resp.Results[1].Description \o <<", ">>
                            \o resp.Results[1].CountryCode,
          Netblocks |-> {},
          Tag |-> tag,
          Source |-> SourceName]

\* The CIDR captures of a page, trimmed and inserted into a set.
PageCIDRs(captures) == {TrimSpace(captures[i], Space) : i \in 1..Len(captures)}

\* A netblocks set started afresh from the page of the AS.
scrapeNetblocksPageOnly(passed, captures) == PageCIDRs(captures)

\* executeASNQuery's loop of Insert calls: the CIDRs of the page join the
\* set that was passed in.
scrapeNetblocks(passed, captures) == Union(passed, PageCIDRs(captures))

\* A selection loop that stops at any block that parses.
bestMatchAnyParsed(addr, blocks) ==
  IF addr = EmptyString THEN {}
  ELSE {c \in blocks : ParseCIDR(c).ok}

\* The loop "for cidr := range netblocks" of both prefix selections: the
\* members it can stop at, in some iteration order of the set.
bestMatch(addr, blocks) ==
  IF addr = EmptyString THEN {}
  ELSE {c \in blocks : ParseCIDR(c).ok /\ Contains(ParseCIDR(c), ParseIP(addr))}

\* A fallback that makes up the host route of the address.
arbitraryMemberHostRoute(addr, blocks) == {<<ParseIP(addr), AddrBits>>}

\* netblocks.Slice()[0]: some member, the slice of a map has no fixed order.
arbitraryMember(addr, blocks) == blocks

\* The prefix executeASNQuery can publish.
scrapePrefix(addr, blocks) ==
  IF bestMatch(addr, blocks) # {} THEN bestMatch(addr, blocks)
  ELSE IF Cardinality(blocks) > 0 THEN arbitraryMember(addr, blocks)
  ELSE {EmptyString}

\* The prefix executeAPIASNQuery can publish (its set is never empty there).
apiPrefix(addr, blocks) ==
  IF bestMatch(addr, blocks) # {} THEN bestMatch(addr, blocks)
  ELSE arbitraryMember(addr, blocks)

\* A loop over the candidates that ends with the first one.
MoreCandidatesNever(i, list) == FALSE

\* "for _, a := range asns": candidates are left after the i-th.
MoreCandidates(i, list) == i < Len(list)

\* An inner loop that accepts a candidate for any block that parses.
candidateMatchesAnyParsed(cidrs, ip) == \E c \in cidrs : ParseCIDR(c).ok

\* The test of executeAPIASNAddrQuery's inner loop: some member of the
\* candidate's netblocks parses and contains the address.
candidateMatches(cidrs, ip) ==
  \E c \in cidrs : ParseCIDR(c).ok /\ Contains(ParseCIDR(c), ip)

\* The record executeASNQuery publishes.
scrapeRecord(a, addr, pfx, cc, name, blocks, tag) ==
  [isNil |-> FALSE,
   Address |-> addr,
   ASN |-> a,
   Prefix |-> pfx,
   CC |-> cc,
   Description |-> name \o <<", ">> \o cc,
   Netblocks |-> blocks,
   Tag |-> tag,
   Source |-> SourceName]

\* A record that keeps the address of the AS-info request (none).
apiRecordNoAddress(r, addr, pfx, blocks) ==
  [r EXCEPT !.Prefix = pfx, !.Netblocks = blocks]

\* The record executeAPIASNQuery publishes: the AS-info request with the
\* address (when there is one), the prefix and the netblocks filled in.
apiRecord(r, addr, pfx, blocks) ==
  [r EXCEPT !.Address = IF addr # EmptyString THEN addr ELSE @,
            !.Prefix = pfx,
            !.Netblocks = blocks]

\* ------------------------------------------------------------- the state
VARIABLES
  cfgAPIKey,    \* the credential the configuration holds for this source
  started,      \* OnStart has run
  apiKey,       \* n.API
  SourceType,   \* n.SourceType
  hasAPIKey,    \* n.hasAPIKey
  rateLimit,    \* the interval set by SetRateLimit, 0 before
  limiter,      \* the rate limiter's clock (see CheckRateLimit)
  pc,           \* where the handler of the current request stands
  req,          \* the request being handled, or the last one handled
  id,           \* executeAPIASNAddrQuery: the organisation id
  asns,         \* executeAPIASNAddrQuery: the candidate AS numbers
  idx,          \* executeAPIASNAddrQuery: the index of the next candidate
  asn,          \* the AS number the chain has fixed, 0 before
  netblocks,    \* the netblocks the chain has collected
  prefix,       \* executeAPIASNQuery: the prefix chosen before the AS-info call
  published,    \* the records the current request put on the new-ASN topic
  \* what an observer of the current request has seen
  outcome,      \* "none", "rejected", "running", "failed", "published"
  calls,        \* the fetches, in order: endpoint, AS number asked, and for a
                \* candidate's netblocks whether they contained the address
  waits,        \* the number of rate-limiter waits
  busCount,     \* the publications per topic
  failedStep,   \* some step met an error, a missing field or no data
  fetchGap,     \* at the last fetch: the seconds since the fetch before it
  fetchWaited,  \* at the last fetch: a wait had happened since the fetch before
  extracted,    \* the CIDRs read from the pages of the current request,
                \* none once the request has failed
  \* OnWhoisRequest
  wpc,          \* where the whois handler stands: "idle", "ipPage", "domains",
                \* "crashed"
  wleft,        \* the links of the loop that are still to be followed
  newdomains,   \* the names found so far
  wlog,         \* the log publications of the current whois request
  wpublished,   \* the records the current request put on the new-whois topic
  \* healASInfo
  cache,        \* the ASN cache: the record under each address
  work,         \* the addresses of the events' output, in the order of the loops
  hidx,         \* the index of the address the loop is at
  hpc,          \* where healASInfo stands: "check", "poll", "recheck", "done"
  status,       \* per data source and address: "idle", "requested", "failed",
                \* "published"
  pending,      \* the records on the new-ASN topic the subscriber has not handled
  inserted,     \* the InsertInfrastructure calls, in order
  slept         \* the loop has slept while waiting for the current address

networksdbVars ==
  <<cfgAPIKey, started, apiKey, SourceType, hasAPIKey, rateLimit, limiter,
    pc, req, id, asns, idx, asn, netblocks, prefix, published,
    outcome, calls, waits, busCount, failedStep, fetchGap, fetchWaited, extracted,
    wpc, wleft, newdomains, wlog, wpublished>>
whoisVars == <<wpc, wleft, newdomains, wlog, wpublished>>
healVars == <<cache, work, hidx, hpc, status, pending, inserted, slept>>
vars == <<networksdbVars, healVars>>

adapterVars == <<cfgAPIKey, started, apiKey, SourceType, hasAPIKey, rateLimit>>
localVars == <<id, asns, idx, asn, netblocks, prefix>>

NoCounts == [Log |-> 0, SetActive |-> 0, NewASN |-> 0]
NoRequest == [Address |-> EmptyString, ASN |-> 0]
Call(ep, a, hit) == [ep |-> ep, asn |-> a, hit |-> hit]

\* The data sources healASInfo asks, and the record of an address that
\* AddrSearch does not find.
Sources == 1..NumSources
FromStorage == 0
NilRecord == [Address |-> EmptyString, ASN |-> 0, Source |-> FromStorage]
HealAddrs == {<<1>>, <<2>>}
EmptyCache == [a \in HealAddrs |-> NilRecord]

\* healASInfo is not running.
HealIdle ==
  /\ cache = EmptyCache
  /\ work = << >>
  /\ hidx = 1
  /\ hpc = "done"
  /\ status = [s \in Sources |-> [a \in HealAddrs |-> "idle"]]
  /\ pending = {}
  /\ inserted = << >>
  /\ slept = FALSE

\* NewNetworksDB: an API source that holds a key, until OnStart says otherwise.
NewNetworksDB ==
  /\ started = FALSE
  /\ apiKey = NilKey
  /\ SourceType = API
  /\ hasAPIKey = TRUE
  /\ rateLimit = 0
  /\ limiter = [sinceWait |-> RateLimit, sinceFetch |-> RateLimit, waited |-> FALSE]
  /\ pc = "idle"
  /\ req = NoRequest
  /\ id = ""
  /\ asns = << >>
  /\ idx = 0
  /\ asn = 0
  /\ netblocks = {}
  /\ prefix = EmptyString
  /\ published = << >>
  /\ outcome = "none"
  /\ calls = << >>
  /\ waits = 0
  /\ busCount = NoCounts
  /\ failedStep = FALSE
  /\ fetchGap = RateLimit
  /\ fetchWaited = TRUE
  /\ extracted = {}
  /\ wpc = "idle"
  /\ wleft = 0
  /\ newdomains = {}
  /\ wlog = 0
  /\ wpublished = << >>

Init ==
  /\ cfgAPIKey \in APIKeys
  /\ NewNetworksDB
  /\ HealIdle

\* ------------------------------------------------------ parts of a step
\* The handler returns: its locals are gone.
Return(o) ==
  /\ pc' = "idle"
  /\ outcome' = o
  /\ id' = ""
  /\ asns' = << >>
  /\ idx' = 0
  /\ asn' = 0
  /\ netblocks' = {}
  /\ prefix' = EmptyString

\* bus.Publish on the three topics the handler uses.
Counted(nlog, nactive, nnew) ==
  busCount' = [Log |-> busCount.Log + nlog,
               SetActive |-> busCount.SetActive + nactive,
               NewASN |-> busCount.NewASN + nnew]

\* A record put on the topic twice.
PublishTwice(rec, nlog, nactive) ==
  /\ published' = published \o <<rec, rec>>
  /\ Counted(nlog, nactive, 2)
  /\ Return("published")

\* bus.Publish(requests.NewASNTopic, ...) followed by the handler's return.
Publish(rec, nlog, nactive) ==
  /\ published' = Append(published, rec)
  /\ Counted(nlog, nactive, 1)
  /\ Return("published")

\* A log publication followed by the handler's return.
Fail(nlog, nactive) ==
  /\ Counted(nlog, nactive, 0)
  /\ Return("failed")
  /\ UNCHANGED published

\* A fetch issued on limiter clock t (after nwaits more waits).
Fetch(t, lat, nwaits, call) ==
  /\ limiter' = RequestWebPage(t, lat)
  /\ fetchGap' = t.sinceFetch
  /\ fetchWaited' = t.waited
  /\ waits' = waits + nwaits
  /\ calls' = Append(calls, call)

\* --------------------------------------- what the observer calls a failure
\* A reply that is an error, reports a service error or reports no results.
NoData(resp) ==
  resp.bad \/ resp.Error # "" \/ resp.Total = 0 \/ resp.Results = << >>

\* Some member of the set is a well-formed block that contains the address.
BlocksContain(cidrs, addr) ==
  \E c \in cidrs : ParseCIDR(c).ok /\ Contains(ParseCIDR(c), ParseIP(addr))

\* ------------------------------------------------------------ the actions
\* OnStart: reads the credential and fixes the mode, sets the rate limit.
OnStart ==
  /\ ~started
  /\ started' = TRUE
  /\ apiKey' = cfgAPIKey
  /\ IF NoAPIKey(cfgAPIKey)
       THEN SourceType' = SCRAPE /\ hasAPIKey' = FALSE
       ELSE UNCHANGED <<SourceType, hasAPIKey>>
  /\ rateLimit' = RateLimit
  /\ UNCHANGED <<cfgAPIKey, limiter, pc, req, localVars, published, outcome,
                 calls, waits, busCount, failedStep, fetchGap, fetchWaited, extracted,
                 healVars, whoisVars>>

\* OnASNRequest: rejects the empty request, else waits for the rate limiter
\* and enters the chain of the mode and of the request's kind.
OnASNRequest(r) ==
  /\ started
  /\ pc = "idle"
  /\ req' = r
  /\ published' = << >>
  /\ calls' = << >>
  /\ busCount' = NoCounts
  /\ failedStep' = FALSE
  /\ extracted' = {}
  /\ UNCHANGED <<adapterVars, fetchGap, fetchWaited, id, asns, idx, prefix, netblocks,
                 healVars, whoisVars>>
  /\ IF InvalidRequest(r)
       THEN /\ outcome' = "rejected"
            /\ waits' = 0
            /\ UNCHANGED <<pc, limiter, asn>>
       ELSE /\ outcome' = "running"
            /\ waits' = 1
            /\ limiter' = CheckRateLimit(limiter, rateLimit)
            /\ IF hasAPIKey
                 THEN IF r.Address # EmptyString
                        THEN pc' = "apiIP" /\ asn' = 0
                        ELSE pc' = "apiNetblocks" /\ asn' = r.ASN
                 ELSE IF r.Address # EmptyString
                        THEN pc' = "scrapeIP" /\ asn' = 0
                        ELSE pc' = "scrapeASN" /\ asn' = r.ASN

\* executeAPIASNAddrQuery, lines 253-259: the IP-info call.
executeAPIASNAddrQuery_IP(resp, lat) ==
  /\ pc = "apiIP"
  /\ LET t == CheckRateLimit(limiter, rateLimit)
         r == apiIPQuery(resp)
     IN  /\ Fetch(t, lat, 1, Call("ip/info", 0, FALSE))
         /\ failedStep' = (failedStep \/ NoData(resp) \/ resp.Results[1].ID = "")
         /\ IF r.id = ""
              THEN Fail(IF NoData(resp) THEN 2 ELSE 1, 1)
              ELSE /\ id' = r.id
                   /\ pc' = "apiOrg"
                   /\ Counted(0, 1, 0)
                   /\ UNCHANGED <<outcome, asns, idx, asn, netblocks, prefix, published>>
  /\ UNCHANGED <<adapterVars, req, extracted, healVars, whoisVars>>

\* executeAPIASNAddrQuery, lines 261-270: the organisation-info call.
executeAPIASNAddrQuery_Org(resp, lat) ==
  /\ pc = "apiOrg"
  /\ LET t == CheckRateLimit(CheckRateLimit(limiter, rateLimit), rateLimit)
         r == apiOrgInfoQuery(resp)
     IN  /\ Fetch(t, lat, 2, Call("org/info", 0, FALSE))
         /\ failedStep' = (failedStep \/ NoData(resp) \/ resp.Results[1].ASNs = << >>)
         /\ IF r.panic
              THEN /\ pc' = "crashed"
                   /\ outcome' = "crashed"
                   /\ Counted(0, 2, 0)
                   /\ UNCHANGED <<localVars, published>>
              ELSE IF Len(r.asns) = 0
                THEN Fail(2, 2)
                ELSE /\ asns' = r.asns
                     /\ idx' = 1
                     /\ pc' = "apiLoop"
                     /\ Counted(0, 2, 0)
                     /\ UNCHANGED <<outcome, id, asn, netblocks, prefix, published>>
  /\ UNCHANGED <<adapterVars, req, extracted, healVars, whoisVars>>

\* executeAPIASNAddrQuery, lines 276-301: one turn of the loop over the
\* candidates, and what follows the loop when this turn ends it: the failure
\* for no match, or executeAPIASNQuery up to its AS-info call (lines 310-336;
\* the netblocks are those of the matching candidate).
executeAPIASNAddrQuery_Netblocks(resp, lat) ==
  /\ pc = "apiLoop"
  /\ LET a == asns[idx]
         t == CheckRateLimit(CheckRateLimit(limiter, rateLimit), rateLimit)
         cidrs == apiNetblocksQuery(resp)
         hit == BlocksContain(cidrs, req.Address)
         nlog == (IF NoData(resp) THEN 1 ELSE 0) + (IF Cardinality(cidrs) = 0 THEN 1 ELSE 0)
     IN  /\ Fetch(t, lat, 2, Call("as/networks", a, hit))
         /\ failedStep' = (failedStep \/ (~hit /\ idx = Len(asns)))
         /\ IF candidateMatches(cidrs, ParseIP(req.Address))
              THEN IF a = 0
                THEN Fail(nlog + 1, 1)
                ELSE /\ asn' = a
                     /\ netblocks' = cidrs
                     /\ IF Cardinality(cidrs) = 0
                          THEN pc' = "apiNetblocks" /\ prefix' = EmptyString
                          ELSE /\ pc' = "apiASInfo"
                               /\ \E pfx \in apiPrefix(req.Address, cidrs) : prefix' = pfx
                     /\ Counted(nlog, 1, 0)
                     /\ UNCHANGED <<outcome, id, asns, idx, published>>
              ELSE IF MoreCandidates(idx, asns)
                THEN /\ idx' = idx + 1
                     /\ Counted(nlog, 1, 0)
                     /\ UNCHANGED <<pc, outcome, id, asns, asn, netblocks, prefix, published>>
                ELSE Fail(nlog + 1, 1)
  /\ UNCHANGED <<adapterVars, req, extracted, healVars, whoisVars>>

\* executeAPIASNQuery, lines 310-336, entered without netblocks: the
\* netblocks call for the AS number and the choice of the prefix.
executeAPIASNQuery_Netblocks(resp, lat) ==
  /\ pc = "apiNetblocks"
  /\ LET t == CheckRateLimit(limiter, rateLimit)
         blocks == Union(netblocks, apiNetblocksQuery(resp))
     IN  /\ Fetch(t, lat, 1, Call("as/networks", asn, FALSE))
         /\ failedStep' = (failedStep \/ NoData(resp))
         /\ IF Cardinality(blocks) = 0
              THEN Fail(2, 1)
              ELSE /\ netblocks' = blocks
                   /\ \E pfx \in apiPrefix(req.Address, blocks) : prefix' = pfx
                   /\ pc' = "apiASInfo"
                   /\ Counted(0, 1, 0)
                   /\ UNCHANGED <<outcome, id, asns, idx, asn, published>>
  /\ UNCHANGED <<adapterVars, req, extracted, healVars, whoisVars>>

\* executeAPIASNQuery, lines 338-354: the AS-info call and the publication.
executeAPIASNQuery_Info(resp, lat) ==
  /\ pc = "apiASInfo"
  /\ LET t == CheckRateLimit(CheckRateLimit(limiter, rateLimit), rateLimit)
         r == apiASNInfoQuery(resp, SourceType)
     IN  /\ Fetch(t, lat, 2, Call("as/info", asn, FALSE))
         /\ failedStep' = (failedStep \/ NoData(resp))
         /\ IF r.isNil
              THEN Fail(2, 2)
              ELSE Publish(apiRecord(r, req.Address, prefix, netblocks), 0, 2)
  /\ UNCHANGED <<adapterVars, req, extracted, healVars, whoisVars>>

\* executeASNAddrQuery, lines 121-134: the page of the address.
executeASNAddrQuery_IP(page, lat) ==
  /\ pc = "scrapeIP"
  /\ Fetch(limiter, lat, 0, Call("ip page", 0, FALSE))
  /\ failedStep' = (failedStep \/ page.err \/ ~page.ASNLink.found)
  /\ IF page.err \/ ~page.ASNLink.found
       THEN Fail(1, 0)
       ELSE /\ pc' = "scrapeAS"
            /\ Counted(0, 0, 0)
            /\ UNCHANGED <<outcome, localVars, published>>
  /\ UNCHANGED <<adapterVars, req, extracted, healVars, whoisVars>>

\* executeASNAddrQuery, lines 136-169: the page of the AS the address page
\* links to, its CIDRs and its AS number.
executeASNAddrQuery_AS(page, lat) ==
  /\ pc = "scrapeAS"
  /\ LET t == RateLimitASPage(limiter, rateLimit)
         n == Atoi(TrimSpace(page.ASNumber.text, Space))
     IN  /\ Fetch(t, lat, 1, Call("linked page", 0, FALSE))
         /\ failedStep' = (failedStep \/ page.err \/ ~page.ASNumber.found \/ ~n.ok)
         /\ extracted' = IF page.err \/ ~page.ASNumber.found \/ ~n.ok THEN {}
                         ELSE extracted \cup PageCIDRs(page.CIDRs)
         /\ IF page.err \/ ~page.ASNumber.found \/ ~n.ok
              THEN Fail(1, 1)
              ELSE /\ asn' = n.val
                   /\ netblocks' = PageCIDRs(page.CIDRs)
                   /\ pc' = "scrapeASN"
                   /\ Counted(0, 1, 0)
                   /\ UNCHANGED <<outcome, id, asns, idx, prefix, published>>
  /\ UNCHANGED <<adapterVars, req, healVars, whoisVars>>

\* executeASNQuery: the page of the AS number, its name, country and CIDRs,
\* the choice of the prefix and the publication.
executeASNQuery(page, lat) ==
  /\ pc = "scrapeASN"
  /\ LET t == CheckRateLimit(limiter, rateLimit)
         name == TrimSpace(page.ASName.text, SpaceCh)
         cc == TrimSpace(page.CC.text, SpaceCh)
         blocks == scrapeNetblocks(netblocks, page.CIDRs)
     IN  /\ Fetch(t, lat, 1, Call("AS page", asn, FALSE))
         /\ failedStep' = (failedStep \/ page.err \/ ~page.ASName.found \/ ~page.CC.found)
         /\ IF page.err \/ ~page.ASName.found \/ ~page.CC.found
              THEN Fail(1, 1) /\ extracted' = {}
              ELSE /\ extracted' = extracted \cup PageCIDRs(page.CIDRs)
                   /\ \E pfx \in scrapePrefix(req.Address, blocks) :
                        Publish(scrapeRecord(asn, req.Address, pfx, cc, name, blocks,
                                             SourceType), 0, 1)
  /\ UNCHANGED <<adapterVars, req, healVars, whoisVars>>

Next ==
  \/ OnStart
  \/ \E r \in Requests : OnASNRequest(r)
  \/ \E resp \in IPInfoResponses, lat \in Latencies : executeAPIASNAddrQuery_IP(resp, lat)
  \/ \E resp \in OrgInfoResponses, lat \in Latencies : executeAPIASNAddrQuery_Org(resp, lat)
  \/ \E resp \in NetblocksResponses, lat \in Latencies :
       executeAPIASNAddrQuery_Netblocks(resp, lat)
  \/ \E resp \in NetblocksResponses, lat \in Latencies : executeAPIASNQuery_Netblocks(resp, lat)
  \/ \E resp \in ASNInfoResponses, lat \in Latencies : executeAPIASNQuery_Info(resp, lat)
  \/ \E page \in IPPages, lat \in Latencies : executeASNAddrQuery_IP(page, lat)
  \/ \E page \in ASPages, lat \in Latencies : executeASNAddrQuery_AS(page, lat)
  \/ \E page \in ASNPages, lat \in Latencies : executeASNQuery(page, lat)

Spec == Init /\ [][Next]_vars

\* ------------------------------------------------ healASInfo and its cache
\* A record on the new-ASN topic, as far as the cache and healASInfo read it.
HealRecord(a, n, s) == [Address |-> a, ASN |-> n, Source |-> s]

\* The AS number a data source reports: the sources need not agree.
ReportedASN(s) == ((s - 1) % MaxASN) + 1
NewASNRecords == {HealRecord(a, ReportedASN(s), s) : a \in HealAddrs, s \in Sources}

\* The records ASNCacheFill finds in the graph database.
StoredRecords == {HealRecord(<<1>>, 1, FromStorage)}

\* A cache of one entry: a new record evicts the others.
UpdateEvicts(c, rec) == [EmptyCache EXCEPT ![rec.Address] = rec]

\* A cache that keeps the first record stored under a key.
UpdateKeepsFirst(c, rec) ==
  IF c[rec.Address] = NilRecord THEN [c EXCEPT ![rec.Address] = rec] ELSE c

\* cache.Update, as far as AddrSearch sees it: the record replaces what is
\* stored under its address.
Update(c, rec) == [c EXCEPT ![rec.Address] = rec]

\* cache.AddrSearch: the record under the address, NilRecord for none.
AddrSearch(c, a) == c[a]

\* db.ASNCacheFill: the cache holds what the graph database knew.
ASNCacheFill == {EmptyCache} \cup {Update(EmptyCache, r) : r \in StoredRecords}

\* db.EventOutput over the uuids: the addresses in the order of the loops;
\* the first event has one address, the later ones two.
WorkLists == UNION {[1..n -> HealAddrs] : n \in 1..MaxWork}
EventOf(i) == (i \div 2) + 1

\* healASInfo up to its loops: the cache is filled, the subscription is made.
HealInit ==
  /\ cfgAPIKey = NilKey
  /\ NewNetworksDB
  /\ cache \in ASNCacheFill
  /\ work \in WorkLists
  /\ hidx = 1
  /\ hpc = "check"
  /\ status = [s \in Sources |-> [a \in HealAddrs |-> "idle"]]
  /\ pending = {}
  /\ inserted = << >>
  /\ slept = FALSE

CurAddr == work[hidx]

\* The next address of the loops, or the return (with the deferred
\* Unsubscribe and Shutdown).
Advance ==
  /\ IF hidx < Len(work)
       THEN hidx' = hidx + 1 /\ hpc' = "check"
       ELSE hidx' = hidx /\ hpc' = "done"
  /\ slept' = FALSE

\* An insert under the uuid of the first event.
InsertInfrastructureFirstEvent(r) ==
  inserted' = Append(inserted, [item |-> hidx, uuid |-> EventOf(1), rec |-> r])

\* db.InsertInfrastructure(r.ASN, ..., uuid).
InsertInfrastructure(r) ==
  inserted' = Append(inserted, [item |-> hidx, uuid |-> EventOf(hidx), rec |-> r])

\* Only the first data source is asked.
SendTargetsFirst == {1}

\* The data sources the loop over sys.DataSources() sends the request to.
SendTargets == Sources

\* src.ASNRequest for each data source.
ASNRequests(a) ==
  status' = [s \in Sources |->
               IF s \in SendTargets THEN [status[s] EXCEPT ![a] = "requested"]
               ELSE status[s]]

\* A cached address for which the data sources are asked all the same.
heal_CachedAsksAnyway ==
  /\ hpc = "check"
  /\ AddrSearch(cache, CurAddr) # NilRecord
  /\ InsertInfrastructure(AddrSearch(cache, CurAddr))
  /\ ASNRequests(CurAddr)
  /\ Advance
  /\ UNCHANGED <<networksdbVars, cache, work, pending>>

\* The address is in the cache: the record is inserted, the loop goes on.
heal_Cached ==
  /\ hpc = "check"
  /\ AddrSearch(cache, CurAddr) # NilRecord
  /\ InsertInfrastructure(AddrSearch(cache, CurAddr))
  /\ Advance
  /\ UNCHANGED <<networksdbVars, cache, work, status, pending>>

\* The address is not in the cache: every data source is asked.
heal_Request ==
  /\ hpc = "check"
  /\ AddrSearch(cache, CurAddr) = NilRecord
  /\ ASNRequests(CurAddr)
  /\ hpc' = "poll"
  /\ UNCHANGED <<networksdbVars, cache, work, hidx, pending, inserted, slept>>

\* The wait loop finds no record and sleeps a second.
heal_Sleep ==
  /\ hpc = "poll"
  /\ AddrSearch(cache, CurAddr) = NilRecord
  /\ slept' = TRUE
  /\ UNCHANGED <<networksdbVars, cache, work, hidx, hpc, status, pending, inserted>>

\* A wait loop that gives up after a sleep.
heal_PollGiveUp ==
  /\ hpc = "poll"
  /\ AddrSearch(cache, CurAddr) # NilRecord \/ slept
  /\ hpc' = "recheck"
  /\ UNCHANGED <<networksdbVars, cache, work, hidx, status, pending, inserted, slept>>

\* The wait loop finds a record and ends.
heal_PollExit ==
  /\ hpc = "poll"
  /\ AddrSearch(cache, CurAddr) # NilRecord
  /\ hpc' = "recheck"
  /\ UNCHANGED <<networksdbVars, cache, work, hidx, status, pending, inserted, slept>>

\* A lookup after the wait loop whose record is dropped.
heal_RecheckDropsRecord ==
  /\ hpc = "recheck"
  /\ Advance
  /\ UNCHANGED <<networksdbVars, cache, work, status, pending, inserted>>

\* The lookup after the wait loop: the record, if any, is inserted.
heal_Recheck ==
  /\ hpc = "recheck"
  /\ IF AddrSearch(cache, CurAddr) # NilRecord
       THEN InsertInfrastructure(AddrSearch(cache, CurAddr))
       ELSE UNCHANGED inserted
  /\ Advance
  /\ UNCHANGED <<networksdbVars, cache, work, status, pending>>

\* A data source resolves the address it was asked: one record whose
\* address is the request's goes on the new-ASN topic.
SourceResolve(s, a) ==
  /\ hpc # "done"
  /\ status[s][a] = "requested"
  /\ status' = [status EXCEPT ![s][a] = "published"]
  /\ pending' = pending \cup {HealRecord(a, ReportedASN(s), s)}
  /\ UNCHANGED <<networksdbVars, cache, work, hidx, hpc, inserted, slept>>

\* A data source fails to resolve the address: nothing is published.
SourceFail(s, a) ==
  /\ hpc # "done"
  /\ status[s][a] = "requested"
  /\ status' = [status EXCEPT ![s][a] = "failed"]
  /\ UNCHANGED <<networksdbVars, cache, work, hidx, hpc, pending, inserted, slept>>

\* A subscriber that stores a record nobody published.
CacheUpdateUnpublished(rec) ==
  /\ hpc # "done"
  /\ cache' = Update(cache, rec)
  /\ pending' = pending \ {rec}
  /\ UNCHANGED <<networksdbVars, work, hidx, hpc, status, inserted, slept>>

\* The bus hands a published record to the subscriber, cache.Update.
CacheUpdate(rec) ==
  /\ hpc # "done"
  /\ rec \in pending
  /\ cache' = Update(cache, rec)
  /\ pending' = pending \ {rec}
  /\ UNCHANGED <<networksdbVars, work, hidx, hpc, status, inserted, slept>>

HealNext ==
  \/ heal_Cached
  \/ heal_Request
  \/ heal_Sleep
  \/ heal_PollExit
  \/ heal_Recheck
  \/ \E s \in Sources, a \in HealAddrs : SourceResolve(s, a)
  \/ \E s \in Sources, a \in HealAddrs : SourceFail(s, a)
  \/ \E rec \in NewASNRecords : CacheUpdate(rec)

SpecHeal == HealInit /\ [][HealNext]_vars

\* The bus delivers what is published, and the loop of healASInfo runs.
FairSpecHeal ==
  /\ SpecHeal
  /\ WF_vars(heal_PollExit)
  /\ WF_vars(heal_Recheck)
  /\ WF_vars(\E rec \in NewASNRecords : CacheUpdate(rec))

\* ------------------------------------------------------- OnWhoisRequest
\* A page of domains-in-network as the text pieces the handler looks for:
\* the two markers and the names the subdomain pattern matches.
DomainsMark == "Domains in network"
TableMark == "<table class"
DomainNames == {"a.example.com", "b.example.com"}
DomainPages ==
  UNION {[1..n -> {DomainsMark, TableMark} \cup DomainNames] : n \in 0..MaxPage}

\* The page of an address with its network: the capture of the CIDR pattern.
IPLinkPages ==
  {[err |-> TRUE, CIDR |-> NoMatch]}
    \cup {[err |-> FALSE, CIDR |-> m] : m \in {NoMatch} \cup {Match(c) : c \in RawCIDRs}}

\* regexp.FindStringIndex: the start and the end of the first match.
FindStringIndex(page, mark) ==
  IF \E i \in 1..Len(page) : page[i] = mark
    THEN LET i == CHOOSE j \in 1..Len(page) :
                    page[j] = mark /\ \A k \in 1..(j - 1) : page[k] # mark
         IN  [isNil |-> FALSE, loc |-> <<i - 1, i>>]
    ELSE [isNil |-> TRUE, loc |-> << >>]

\* page[start:end]: a run-time panic when the bounds are out of order.
Slice(page, start, end) ==
  [panic |-> start > end \/ end > Len(page), text |-> SubSeq(page, start + 1, end)]

\* re.FindAllString over the section: the names in it.
DomainsIn(section) == {section[i] : i \in {j \in 1..Len(section) : section[j] \in DomainNames}}

\* The WhoisRequest the handler publishes.
whoisRecord(names, tag) ==
  [Domain |-> "example.com", NewDomains |-> names, Tag |-> tag, Source |-> SourceName]

\* What a whois step leaves alone.
whoisFrame ==
  <<adapterVars, pc, req, localVars, published, outcome, calls, waits, busCount,
    failedStep, fetchGap, fetchWaited, extracted, healVars>>

\* A fetch of the whois handler: the wait for the rate limiter and the page.
WhoisFetch(lat) == limiter' = RequestWebPage(CheckRateLimit(limiter, rateLimit), lat)

\* The end of one turn of the loop over the links: the next link, or the
\* publication of the names found and the return.
WhoisContinue(names, nlog) ==
  /\ newdomains' = names
  /\ wlog' = wlog + nlog
  /\ wleft' = wleft - 1
  /\ IF wleft > 1
       THEN wpc' = "ipPage" /\ UNCHANGED wpublished
       ELSE /\ wpc' = "idle"
            /\ wpublished' = IF names # {}
                               THEN Append(wpublished, whoisRecord(names, SourceType))
                               ELSE wpublished

\* OnWhoisRequest, lines 569-595: the scope test, the page of the domain
\* and its links to address pages.
OnWhoisRequest(inScope, err, nlinks, lat) ==
  /\ started
  /\ wpc = "idle"
  /\ pc = "idle"
  /\ newdomains' = {}
  /\ wpublished' = << >>
  /\ IF ~inScope
       THEN UNCHANGED <<limiter, wpc, wleft>> /\ wlog' = 0
       ELSE /\ WhoisFetch(lat)
            /\ IF err \/ nlinks = 0
                 THEN wlog' = 1 /\ UNCHANGED <<wpc, wleft>>
                 ELSE wlog' = 0 /\ wpc' = "ipPage" /\ wleft' = nlinks
  /\ UNCHANGED whoisFrame

\* OnWhoisRequest, lines 599-624: the page of one address and its network.
OnWhoisRequest_IPPage(page, lat) ==
  /\ wpc = "ipPage"
  /\ WhoisFetch(lat)
  /\ IF page.err \/ ~page.CIDR.found
       THEN WhoisContinue(newdomains, 1)
       ELSE IF ~ParseCIDR(page.CIDR.text).ok
         THEN WhoisContinue(newdomains, 0)
         ELSE /\ wpc' = "domains"
              /\ UNCHANGED <<wleft, newdomains, wlog, wpublished>>
  /\ UNCHANGED whoisFrame

\* OnWhoisRequest, lines 626-653: the page of the domains in the network
\* and the section cut out of it.
OnWhoisRequest_Domains(err, page, lat) ==
  /\ wpc = "domains"
  /\ WhoisFetch(lat)
  /\ LET domainsPos == FindStringIndex(page, DomainsMark)
         tablePos == FindStringIndex(page, TableMark)
     IN  IF err
           THEN WhoisContinue(newdomains, 1)
           ELSE IF domainsPos.isNil \/ tablePos.isNil
             THEN WhoisContinue(newdomains, 1)
             ELSE LET cut == Slice(page, domainsPos.loc[2], tablePos.loc[2])
                  IN  IF cut.panic
                        THEN /\ wpc' = "crashed"
                             /\ UNCHANGED <<wleft, newdomains, wlog, wpublished>>
                        ELSE WhoisContinue(newdomains \cup DomainsIn(cut.text), 0)
  /\ UNCHANGED whoisFrame

WhoisNext ==
  \/ OnStart
  \/ \E inScope \in BOOLEAN, err \in BOOLEAN, nlinks \in 0..MaxLinks, lat \in Latencies :
       OnWhoisRequest(inScope, err, nlinks, lat)
  \/ \E page \in IPLinkPages, lat \in Latencies : OnWhoisRequest_IPPage(page, lat)
  \/ \E err \in BOOLEAN, page \in DomainPages, lat \in Latencies :
       OnWhoisRequest_Domains(err, page, lat)

SpecWhois == Init /\ [][WhoisNext]_vars


\* ------------------------------------------------------------- the claims
\* The netblocks calls of the current request, in order.
CandidateCalls == SelectSeq(calls, LAMBDA c : c.ep = "as/networks")
APIAddressRequest == started /\ hasAPIKey /\ req.Address # EmptyString
WellFormed(c) == ParseCIDR(c).ok
BlockContains(c, addr) == ParseCIDR(c).ok /\ Contains(ParseCIDR(c), ParseIP(addr))

\* C1: a resolution attempt in which some step fails (a transport or service
\* error, a missing pattern or field, zero results, no candidate AS whose
\* netblocks contain the address) puts no record on the new-ASN topic.
C1_FailedAttemptPublishesNothing ==
  failedStep => published = << >> /\ busCount.NewASN = 0

\* C1 witness: an API attempt that tried every candidate, found none that
\* contains the address, and returned after logging.
C1_Witness ==
  /\ failedStep
  /\ outcome = "failed"
  /\ Len(CandidateCalls) = 2
  /\ \A i \in 1..2 : ~CandidateCalls[i].hit
  /\ published = << >>
  /\ busCount.Log > 0

\* C2: every record on the new-ASN topic has a non-empty netblocks set.
C2_PublishedNetblocksNonEmpty ==
  \A i \in 1..Len(published) : published[i].Netblocks # {}

\* C3: in every published record with a non-empty netblocks set, the prefix
\* is a member of that set.
C3_PrefixIsAMember ==
  \A i \in 1..Len(published) :
    published[i].Netblocks # {} => published[i].Prefix \in published[i].Netblocks

\* C3 witness: a record whose prefix was taken by the fallback (no block
\* contains the address) out of two blocks.
C3_Witness ==
  \E i \in 1..Len(published) :
    /\ Cardinality(published[i].Netblocks) = 2
    /\ ~BlocksContain(published[i].Netblocks, published[i].Address)
    /\ published[i].Prefix \in published[i].Netblocks

\* C4: when the address of a published record parses and some well-formed
\* block of its netblocks contains it, the prefix is a block that contains it.
C4_PrefixContainsAddress ==
  \A i \in 1..Len(published) :
    (/\ ParseIP(published[i].Address) # NilIP
     /\ BlocksContain(published[i].Netblocks, published[i].Address))
      => BlockContains(published[i].Prefix, published[i].Address)

\* C4 witness: a record with a block that contains the address and a
\* well-formed block that does not, published with the containing one.
C4_Witness ==
  \E i \in 1..Len(published) :
    /\ ParseIP(published[i].Address) # NilIP
    /\ \E c \in published[i].Netblocks :
         WellFormed(c) /\ ~BlockContains(c, published[i].Address)
    /\ BlockContains(published[i].Prefix, published[i].Address)

C6_NoResponseCrashes == pc # "crashed"

\* C7: a request with neither an address nor an AS number is rejected before
\* any rate-limiter wait, fetch or publication.
C7_EmptyRequestRejected ==
  (outcome # "none" /\ req.Address = EmptyString /\ req.ASN = 0) =>
    /\ outcome = "rejected"
    /\ pc = "idle"
    /\ waits = 0
    /\ calls = << >>
    /\ busCount = NoCounts
    /\ published = << >>

\* C7 witness: an empty request rejected right after a request that fetched;
\* the limiter still shows the fetch, no wait has happened since.
C7_Witness ==
  /\ outcome = "rejected"
  /\ req = NoRequest
  /\ ~limiter.waited
  /\ limiter.sinceFetch < RateLimit

\* C8: a request publishes at most one record, and exactly one when it is
\* handled to its end without a failed step.
C8_ExactlyOneRecord ==
  /\ Len(published) <= 1
  /\ busCount.NewASN = Len(published)
  /\ outcome = "published" => Len(published) = 1
  /\ (pc = "idle" /\ outcome \in {"failed", "published"} /\ ~failedStep) =>
       Len(published) = 1

\* C8 witness: a scrape address request handled to its end, three fetches
\* and one record.
C8_Witness ==
  /\ outcome = "published"
  /\ ~hasAPIKey
  /\ req.Address # EmptyString
  /\ Len(calls) = 3
  /\ Len(published) = 1
  /\ ~failedStep

\* C9: once started, the has-credential flag and the source type are those
\* the credential at start decides; without a credential (none, or an empty
\* key) every request is handled by the scrape chain and its record is
\* tagged as scrape-derived.
C9_ModeFixedAtStart ==
  started =>
    /\ hasAPIKey = (~cfgAPIKey.isNil /\ cfgAPIKey.Key # "")
    /\ SourceType = (IF hasAPIKey THEN API ELSE SCRAPE)
    /\ (cfgAPIKey.isNil \/ cfgAPIKey.Key = "") =>
         /\ pc \in {"idle", "scrapeIP", "scrapeAS", "scrapeASN"}
         /\ \A i \in 1..Len(calls) : calls[i].ep \in {"ip page", "linked page", "AS page"}
         /\ \A i \in 1..Len(published) : published[i].Tag = SCRAPE

\* C9 witness: started with a credential whose key is empty, a record
\* published by the scrape chain with the scrape tag.
C9_Witness ==
  /\ started
  /\ ~cfgAPIKey.isNil
  /\ cfgAPIKey.Key = ""
  /\ Len(published) = 1
  /\ published[1].Tag = SCRAPE
  /\ calls[Len(calls)].ep = "AS page"

\* C10: every fetch is issued after a rate-limiter wait that followed the
\* previous fetch, and at least RateLimit seconds after that fetch.
C10_FetchesAreSpaced == fetchWaited /\ fetchGap >= RateLimit

\* C10 witness: the second fetch of a scrape address request, issued after
\* the first one's response arrived at once.
C10_Witness ==
  /\ pc = "scrapeASN"
  /\ Len(calls) = 2
  /\ fetchWaited
  /\ fetchGap = RateLimit

\* C18: the address of every published record is the address of the request
\* that triggered it: the queried address, or none for an AS-number request.
C18_RecordAddressIsRequestAddress ==
  \A i \in 1..Len(published) : published[i].Address = req.Address

\* C18 witness: an API address request whose record carries the address.
C18_Witness ==
  /\ hasAPIKey
  /\ req.Address # EmptyString
  /\ Len(published) = 1
  /\ published[1].Address = req.Address

\* C19: the ASN of a record published by the API variant is the AS number
\* that was asked of the AS-info endpoint.
C19_RecordASNIsFixedASN ==
  (started /\ hasAPIKey) =>
    \A i \in 1..Len(published) : published[i].ASN = calls[Len(calls)].asn

\* The place of an endpoint in the API chain.
EndpointRank(ep) ==
  CASE ep = "ip/info" -> 1
    [] ep = "org/info" -> 2
    [] ep = "as/networks" -> 3
    [] ep = "as/info" -> 4
    [] OTHER -> 0

\* C20: the API chain calls IP-info, organisation-info, netblocks (once per
\* candidate tried) and AS-info in this order, an AS-number request calls
\* netblocks once and then AS-info; no call follows a failed step, and the
\* AS-info call is made with a non-empty netblocks set.
C20_EndpointOrder ==
  (started /\ hasAPIKey) =>
    /\ failedStep => pc \in {"idle", "crashed"}
    /\ \A i \in 1..Len(calls) : EndpointRank(calls[i].ep) > 0
    /\ \A i \in 1..(Len(calls) - 1) :
         \/ EndpointRank(calls[i].ep) + 1 = EndpointRank(calls[i + 1].ep)
         \/ calls[i].ep = "as/networks" /\ calls[i + 1].ep = "as/networks"
    /\ calls # << >> =>
         calls[1].ep = (IF req.Address # EmptyString THEN "ip/info" ELSE "as/networks")
    /\ req.Address = EmptyString => Len(calls) <= 2
    /\ pc = "apiASInfo" => netblocks # {}
    /\ pc = "apiOrg" => Len(calls) = 1
    /\ pc = "apiLoop" => calls[Len(calls)].ep \in {"org/info", "as/networks"}
    /\ pc = "apiNetblocks" => calls = << >>

\* C20 witness: an address request that called all four endpoints, the
\* netblocks endpoint for two candidates, and published.
C20_Witness ==
  /\ hasAPIKey
  /\ Len(calls) = 5
  /\ calls[1].ep = "ip/info"
  /\ calls[2].ep = "org/info"
  /\ calls[3].ep = "as/networks"
  /\ calls[4].ep = "as/networks"
  /\ calls[5].ep = "as/info"
  /\ outcome = "published"

\* --------------------------------------------- the claims on healASInfo
\* A step of healASInfo itself (the data sources and the bus move on their own).
HealStep == <<hpc, hidx, inserted, slept>>' # <<hpc, hidx, inserted, slept>>
Found(a) == AddrSearch(cache, a) # NilRecord
InsertOf(i, r) == [item |-> i, uuid |-> EventOf(i), rec |-> r]

\* C11: for an address the cache has a record of, healASInfo inserts that
\* record; it asks no data source and does not enter the wait loop.
C11_CachedAddressAsksNobody ==
  [][(hpc = "check" /\ Found(CurAddr) /\ HealStep) =>
       /\ status' = status
       /\ hpc' # "poll"
       /\ ~slept'
       /\ inserted' = Append(inserted, InsertOf(hidx, AddrSearch(cache, CurAddr)))]_vars

\* C11 witness: healASInfo went through a cached address and returned; no
\* data source was ever asked.
C11_Witness ==
  /\ hpc = "done"
  /\ Len(inserted) = Len(work)
  /\ \A s \in Sources, a \in HealAddrs : status[s][a] = "idle"

\* C12: for an address the cache has no record of, healASInfo asks every
\* data source, each once, and only then waits.
C12_EverySourceIsAsked ==
  /\ [][(hpc = "check" /\ ~Found(CurAddr) /\ HealStep) =>
          /\ hpc' = "poll"
          /\ \A s \in Sources :
               status[s][CurAddr] = "idle" /\ status'[s][CurAddr] = "requested"]_vars
  /\ [](hpc \in {"poll", "recheck"} => \A s \in Sources : status[s][CurAddr] # "idle")

\* C12 witness: healASInfo waits and the request is with every data source.
C12_Witness ==
  /\ hpc = "poll"
  /\ \A s \in Sources : status[s][CurAddr] = "requested"

\* Every data source failed to resolve the address healASInfo waits for.
AllFailed ==
  /\ hpc = "poll"
  /\ ~Found(CurAddr)
  /\ \A s \in Sources : status[s][CurAddr] = "failed"

\* C13: once every data source has failed for the address, healASInfo stays
\* in its wait loop: it neither returns nor goes on to the next address.
C13_FailedAddressBlocksForever ==
  [][AllFailed => (AllFailed' /\ hidx' = hidx /\ inserted' = inserted)]_vars

\* C13 witness: every data source failed and healASInfo has slept.
C13_Witness == AllFailed /\ slept

\* C14: when a record for the address healASInfo waits for is on the topic
\* or in the cache, healASInfo eventually leaves the wait loop and inserts
\* a record of that address that a data source published.
C14_PublishedRecordEndsTheWait ==
  \A i \in 1..MaxWork :
    (hidx = i /\ hpc = "poll" /\ (Found(CurAddr) \/ \E r \in pending : r.Address = CurAddr))
      ~> (\E k \in 1..Len(inserted) :
            /\ inserted[k].item = i
            /\ inserted[k].rec.Address = work[i]
            /\ inserted[k].rec.Source \in Sources)

\* C14 witness: healASInfo waited for its last address, inserted the
\* record a data source published for it, and returned.
C14_Witness ==
  /\ hpc = "done"
  /\ inserted # << >>
  /\ inserted[Len(inserted)].item = hidx
  /\ inserted[Len(inserted)].rec \in NewASNRecords
  /\ status[inserted[Len(inserted)].rec.Source][CurAddr] = "published"

\* C15: the record the subscriber handles replaces, whole, what the cache
\* held under its address, and no other entry changes: after any order of
\* handling, the entry is the record handled last.
C15_LastHandledRecordWins ==
  [][\A rec \in pending : rec \notin pending' =>
       /\ AddrSearch(cache', rec.Address) = rec
       /\ \A a \in HealAddrs \ {rec.Address} :
            AddrSearch(cache', a) = AddrSearch(cache, a)]_vars

\* C15 witness: two data sources published for one address and both
\* records were handled.
C15_Witness ==
  \E a \in HealAddrs, s1 \in Sources, s2 \in Sources :
    /\ s1 # s2
    /\ status[s1][a] = "published"
    /\ status[s2][a] = "published"
    /\ \A r \in pending : r.Address # a
    /\ AddrSearch(cache, a).Source \in {s1, s2}

\* C16, as stated: every record in the cache, and every record healASInfo
\* reads from it, was stored by the subscriber of the new-ASN topic.
C16_OnlyTheSubscriberWrites ==
  /\ \A a \in HealAddrs : Found(a) => AddrSearch(cache, a).Source \in Sources
  /\ \A k \in 1..Len(inserted) : inserted[k].rec.Source \in Sources

\* C16, amended: the cache holds what ASNCacheFill read from the database
\* and what the subscriber stored; once the loops run, the cache changes
\* only when the subscriber handles a record that is on the topic.
C16_FillThenOnlyTheSubscriber ==
  /\ [](\A a \in HealAddrs :
          Found(a) => AddrSearch(cache, a) \in StoredRecords \cup NewASNRecords)
  /\ [][cache' # cache =>
          \E rec \in pending : cache' = Update(cache, rec) /\ pending' = pending \ {rec}]_vars

\* C16 witness: healASInfo inserted a record the database had and then a
\* record a data source published.
C16_Witness ==
  /\ Len(inserted) = 2
  /\ inserted[1].rec \in StoredRecords
  /\ inserted[2].rec \in NewASNRecords

\* C17: an address the cache has a record of keeps having one, and the
\* lookup that follows the wait loop finds a record.
C17_EntriesStay ==
  /\ [][\A a \in HealAddrs : Found(a) => AddrSearch(cache', a) # NilRecord]_vars
  /\ [](hpc = "recheck" => Found(CurAddr))

\* C17 witness: after the wait loop for one address, the subscriber handles
\* a record for another address.
C17_Witness ==
  /\ hpc = "recheck"
  /\ \A a \in HealAddrs : Found(a)
  /\ \E a \in HealAddrs : a # CurAddr /\ AddrSearch(cache, a).Source \in Sources

\* The addresses healASInfo is through with.
Completed == IF hpc = "done" THEN Len(work) ELSE hidx - 1

\* C24: healASInfo inserts once for each address it is through with, under
\* the uuid of the address's event, and each insert is made when the cache
\* has a record of the address, with that record.
C24_OneInsertPerAddress ==
  /\ [](/\ Len(inserted) = Completed
        /\ \A k \in 1..Len(inserted) :
             /\ inserted[k].item = k
             /\ inserted[k].uuid = EventOf(k)
             /\ inserted[k].rec # NilRecord
             /\ inserted[k].rec.Address = work[k])
  /\ [][inserted' # inserted =>
          /\ Found(CurAddr)
          /\ inserted' = Append(inserted, InsertOf(hidx, AddrSearch(cache, CurAddr)))]_vars

\* C24 witness: healASInfo returned after two addresses of two events; the
\* record inserted for one of them has since been replaced in the cache.
C24_Witness ==
  /\ hpc = "done"
  /\ Len(work) = 2
  /\ Len(inserted) = 2
  /\ inserted[1].uuid # inserted[2].uuid
  /\ \E k \in 1..2 : inserted[k].rec # AddrSearch(cache, work[k])

\* ------------------------------------- further claims on the adapter
\* The fetches of the AS page in the current request.
ASPageCalls == SelectSeq(calls, LAMBDA c : c.ep \in {"linked page", "AS page"})

\* C21: a scrape address request that publishes has fetched the page of the
\* AS exactly once.
C21_ASPageFetchedOnce ==
  (started /\ ~hasAPIKey /\ req.Address # EmptyString /\ published # << >>) =>
    Len(ASPageCalls) = 1

\* C22: the netblocks of a record published in scrape mode are the CIDRs
\* read in the address step together with those read in the AS step, each
\* once; before the AS step the set handed on holds those of the address
\* step (none for an AS-number request).
C22_NetblocksAreTheUnion ==
  (started /\ ~hasAPIKey) =>
    /\ pc = "scrapeASN" => netblocks = extracted
    /\ (pc = "scrapeASN" /\ req.Address = EmptyString) => netblocks = {}
    /\ \A i \in 1..Len(published) : published[i].Netblocks = extracted

\* C22 witness: the record of an address request holds more blocks than one
\* page can show: blocks of the address step and blocks of the AS step.
C22_Witness ==
  /\ started
  /\ ~hasAPIKey
  /\ req.Address # EmptyString
  /\ Len(published) = 1
  /\ Cardinality(published[1].Netblocks) > MaxBlocks
  /\ published[1].Netblocks = extracted

\* C23: the prefix of a published record is never a malformed CIDR string.
C23_PrefixIsWellFormed ==
  \A i \in 1..Len(published) :
    published[i].Prefix # EmptyString => WellFormed(published[i].Prefix)

\* C25: in an API address request, a candidate whose netblocks do not
\* contain the address (the call failed, returned nothing, or returned other
\* blocks) does not end the attempt while candidates are left: the loop goes
\* on to the next candidate and nothing is published or given up.
C25_FailingCandidateIsPassedOver ==
  [][(pc = "apiLoop" /\ calls' # calls /\ ~calls'[Len(calls')].hit /\ idx < Len(asns)) =>
       /\ pc' = "apiLoop"
       /\ idx' = idx + 1
       /\ asns' = asns
       /\ outcome' = outcome
       /\ published' = published
       /\ busCount'.Log >= busCount.Log
       /\ busCount'.NewASN = busCount.NewASN]_vars

\* C25 witness: the first candidate's netblocks call gave nothing and was
\* logged, the second candidate's netblocks contain the address, and the
\* record is published.
C25_Witness ==
  /\ APIAddressRequest
  /\ Len(CandidateCalls) = 2
  /\ ~CandidateCalls[1].hit
  /\ CandidateCalls[2].hit
  /\ busCount.Log >= 1
  /\ outcome = "published"
  /\ published # << >>

\* ----------------------------------------- the claim on OnWhoisRequest
\* C26: no domains-in-network page crashes the whois handler: the bounds of
\* the section it cuts out are in order.
C26_SliceBoundsValid == wpc # "crashed"

====
